---- MODULE Spec2Model ----
(***************************************************************************)
(* repl-with: a Node.js REPL preloaded with npm packages.                  *)
(* Model of src/src/lib.ts and src/src/index.ts.                           *)
(*                                                                         *)
(* A JavaScript string is a sequence of one-character strings, so that the *)
(* specifier pattern, String.split and the identifier pattern are computed *)
(* character by character.                                                 *)
(***************************************************************************)
EXTENDS Integers, Sequences, FiniteSets, TLC

(* ------------------------------ bounds -------------------------------- *)
MaxSpecLen == 8
MaxArgLen == 5
MaxLineLen == 4
MaxAliasLen == 3
MaxCommands == 2
MaxResets == 1

(* ------------------------------ strings -------------------------------- *)
LowerCase == {"a","b","c","d","e","f","g","h","i","j","k","l","m",
              "n","o","p","q","r","s","t","u","v","w","x","y","z"}
UpperCase == {"A","B","C","D","E","F","G","H","I","J","K","L","M",
              "N","O","P","Q","R","S","T","U","V","W","X","Y","Z"}
Digits == {"0","1","2","3","4","5","6","7","8","9"}

\* the characters the pattern's `.` does not match
LineTerminators == {"\n", "\r"}

StringsUpTo(alphabet, n) == UNION {[1..k -> alphabet] : k \in 0..n}

Includes(str, ch) == \E i \in 1..Len(str) : str[i] = ch

AllIn(str, from, to, class) == \A i \in from..to : str[i] \in class
NoneIn(str, from, to, class) == \A i \in from..to : str[i] \notin class

\* Array.prototype.includes on a list
ListIncludes(list, x) == \E i \in 1..Len(list) : list[i] = x

\* String.prototype.split(sep) for a one-character separator
RECURSIVE SplitFrom(_, _, _)
SplitFrom(str, sep, acc) ==
    IF str = <<>> THEN <<acc>>
    ELSE IF Head(str) = sep THEN <<acc>> \o SplitFrom(Tail(str), sep, <<>>)
    ELSE SplitFrom(Tail(str), sep, Append(acc, Head(str)))

Split(str, sep) == SplitFrom(str, sep, <<>>)

(* --------------------------- parsePackageSpec -------------------------- *)
\* (?<scope>@[^\/]+\/)
IsScopeText(t) ==
    /\ Len(t) >= 3
    /\ t[1] = "@"
    /\ t[Len(t)] = "/"
    /\ NoneIn(t, 2, Len(t) - 1, {"/"})

\* (?<name>[^\/@]+)
IsNameText(t) == Len(t) >= 1 /\ NoneIn(t, 1, Len(t), {"/", "@"})

\* (?<version>@[^\/]+)
IsVersionText(t) ==
    /\ Len(t) >= 2
    /\ t[1] = "@"
    /\ NoneIn(t, 2, Len(t), {"/"})

\* (?<subpath>\/.+)
IsSubpathText(t) ==
    /\ Len(t) >= 2
    /\ t[1] = "/"
    /\ NoneIn(t, 2, Len(t), LineTerminators)

\* Every way the anchored pattern can consume the whole of str: the groups
\* scope, version and subpath are optional (an absent group is the empty
\* text), name is mandatory.
PatternMatches(str) ==
    LET n == Len(str) IN
    { m \in { [scope   |-> SubSeq(str, 1, i),
               name    |-> SubSeq(str, i + 1, j),
               version |-> SubSeq(str, j + 1, k),
               subpath |-> SubSeq(str, k + 1, n)] :
                 <<i, j, k>> \in { c \in (0..n) \X (0..n) \X (0..n) :
                                     c[1] <= c[2] /\ c[2] <= c[3] } } :
        /\ m.scope = <<>> \/ IsScopeText(m.scope)
        /\ IsNameText(m.name)
        /\ m.version = <<>> \/ IsVersionText(m.version)
        /\ m.subpath = <<>> \/ IsSubpathText(m.subpath) }

\* The match a backtracking engine reports: greedy quantifiers prefer the
\* longer scope, then the longer name, then the longer version.
Preferred(a, b) ==
    \/ Len(a.scope) > Len(b.scope)
    \/ Len(a.scope) = Len(b.scope) /\ Len(a.name) > Len(b.name)
    \/ /\ Len(a.scope) = Len(b.scope)
       /\ Len(a.name) = Len(b.name)
       /\ Len(a.version) >= Len(b.version)

packageSpecPattern(str) ==
    LET ms == PatternMatches(str) IN
    IF ms = {} THEN [matched |-> FALSE, groups |-> <<>>]
    ELSE [matched |-> TRUE,
          groups  |-> CHOOSE m \in ms : \A o \in ms : Preferred(m, o)]

parsePackageSpec_NoVersion(spec) ==
    LET match == packageSpecPattern(spec) IN
    IF ~match.matched
    THEN [install |-> <<>>, scope |-> <<>>, name |-> <<>>,
          version |-> <<>>, subpath |-> <<>>]
    ELSE [install |-> match.groups.scope \o match.groups.name,
          scope   |-> match.groups.scope,
          name    |-> match.groups.name,
          version |-> match.groups.version,
          subpath |-> match.groups.subpath]

parsePackageSpec(spec) ==
    LET match == packageSpecPattern(spec) IN
    IF ~match.matched
    THEN [install |-> <<>>, scope |-> <<>>, name |-> <<>>,
          version |-> <<>>, subpath |-> <<>>]
    ELSE [install |-> match.groups.scope \o match.groups.name \o match.groups.version,
          scope   |-> match.groups.scope,
          name    |-> match.groups.name,
          version |-> match.groups.version,
          subpath |-> match.groups.subpath]

(* --------------------- getPackagesToInstallFromArgv -------------------- *)
\* one element of argv.map(...)
PackageFromArg(arg) ==
    LET hasAlias   == Includes(arg, "=")
        spec       == IF hasAlias THEN Split(arg, "=")[2] ELSE arg
        parsedSpec == parsePackageSpec(spec)
    IN  [spec    |-> spec,
         alias   |-> IF hasAlias THEN Split(arg, "=")[1] ELSE parsedSpec.name,
         install |-> parsedSpec.install,
         scope   |-> parsedSpec.scope,
         name    |-> parsedSpec.name,
         version |-> parsedSpec.version,
         subpath |-> parsedSpec.subpath]

getPackagesToInstallFromArgv(argv) ==
    [i \in 1..Len(argv) |-> PackageFromArg(argv[i])]

(* ------------------------- validatePackageNames ------------------------ *)
JS_RESERVED_WORDS == <<
    <<"b","r","e","a","k">>, <<"c","a","s","e">>, <<"c","a","t","c","h">>, <<"c","l","a","s","s">>,
    <<"c","o","n","s","t">>, <<"c","o","n","t","i","n","u","e">>,
    <<"d","e","b","u","g","g","e","r">>, <<"d","e","f","a","u","l","t">>,
    <<"d","e","l","e","t","e">>, <<"d","o">>, <<"e","l","s","e">>, <<"e","n","u","m">>,
    <<"e","x","p","o","r","t">>, <<"e","x","t","e","n","d","s">>, <<"f","a","l","s","e">>,
    <<"f","i","n","a","l","l","y">>, <<"f","o","r">>, <<"f","u","n","c","t","i","o","n">>,
    <<"i","f">>, <<"i","m","p","o","r","t">>, <<"i","n">>,
    <<"i","n","s","t","a","n","c","e","o","f">>, <<"l","e","t">>, <<"n","e","w">>,
    <<"n","u","l","l">>, <<"r","e","t","u","r","n">>, <<"s","u","p","e","r">>,
    <<"s","w","i","t","c","h">>, <<"t","h","i","s">>, <<"t","h","r","o","w">>, <<"t","r","u","e">>,
    <<"t","r","y">>, <<"t","y","p","e","o","f">>, <<"v","a","r">>, <<"v","o","i","d">>,
    <<"w","h","i","l","e">>, <<"w","i","t","h">>, <<"y","i","e","l","d">>
    >>

IdentStart == LowerCase \cup UpperCase \cup {"_", "$"}
IdentPart == IdentStart \cup Digits

\* /^[a-zA-Z_$][a-zA-Z0-9_$]*$/
IdentPattern(name) ==
    /\ Len(name) >= 1
    /\ name[1] \in IdentStart
    /\ AllIn(name, 2, Len(name), IdentPart)

isValidJsVariableName(name) ==
    IF ListIncludes(JS_RESERVED_WORDS, name) THEN FALSE
    ELSE IdentPattern(name)

\* characters encodeURIComponent leaves as they are
UriUnreserved == LowerCase \cup UpperCase \cup Digits \cup
                 {"-", "_", ".", "!", "~", "*", "'", "(", ")"}
UrlFriendly(str) == AllIn(str, 1, Len(str), UriUnreserved)

\* the registry's scoped form ^(?:@([^/]+?)[/])?([^/]+?)$ with both parts
\* URL-friendly
ScopedUrlFriendly(str) ==
    \E i \in 0..Len(str) :
        LET user == SubSeq(str, 2, i - 1)
            pkg  == SubSeq(str, i + 1, Len(str))
        IN  /\ i = 0 \/ (i >= 3 /\ str[1] = "@" /\ str[i] = "/")
            /\ i = 0 \/ (NoneIn(user, 1, Len(user), {"/"}) /\ UrlFriendly(user))
            /\ Len(pkg) >= 1
            /\ NoneIn(pkg, 1, Len(pkg), {"/"})
            /\ UrlFriendly(pkg)

Blacklisted == { <<"n","o","d","e","_","m","o","d","u","l","e","s">>,
                 <<"f","a","v","i","c","o","n",".","i","c","o">> }

\* validateNpmPackageName(packageName).errors?.length: the registry rules
\* that are errors (the rules that are only warnings do not reject)
NpmNameHasErrors(packageName) ==
    \/ Len(packageName) = 0
    \/ packageName[1] \in {".", "_"}
    \/ packageName[1] = " " \/ packageName[Len(packageName)] = " "
    \/ packageName \in Blacklisted
    \/ ~UrlFriendly(packageName) /\ ~ScopedUrlFriendly(packageName)

\* the first package the forEach throws on, 0 when it throws on none
FirstInvalid(newPackages) ==
    LET bad == { i \in 1..Len(newPackages) :
                   \/ ~isValidJsVariableName(newPackages[i].alias)
                   \/ NpmNameHasErrors(newPackages[i].scope \o newPackages[i].name) }
    IN  IF bad = {} THEN 0 ELSE CHOOSE i \in bad : \A j \in bad : i <= j

SeqToSet(list) == { list[i] : i \in 1..Len(list) }

AllAliases_NewOnly(newPackages, alreadyInstalled) ==
    [i \in 1..Len(newPackages) |-> newPackages[i].alias]

\* [...newPackages, ...alreadyInstalled].map(pkg => pkg.alias)
AllAliases(newPackages, alreadyInstalled) ==
    [i \in 1..(Len(newPackages) + Len(alreadyInstalled)) |->
        IF i <= Len(newPackages) THEN newPackages[i].alias
        ELSE alreadyInstalled[i - Len(newPackages)].alias]

\* the error validatePackageNames throws, "none" when it returns
validatePackageNames(newPackages, alreadyInstalled) ==
    LET first      == FirstInvalid(newPackages)
        allAliases == AllAliases(newPackages, alreadyInstalled)
    IN  IF first # 0
        THEN IF ~isValidJsVariableName(newPackages[first].alias)
             THEN [error |-> "Invalid alias", subject |-> newPackages[first].alias]
             ELSE [error |-> "Invalid package name",
                   subject |-> newPackages[first].scope \o newPackages[first].name]
        ELSE IF Len(allAliases) # Cardinality(SeqToSet(allAliases))
             THEN [error |-> "Package names must be unique", subject |-> <<>>]
             ELSE [error |-> "none", subject |-> <<>>]

(* ------------------------------ session -------------------------------- *)
VARIABLES
    argv,               \* process.argv.slice(2)
    tasks,              \* tasks[1] is main(); the others are command and reset handlers
    installedPackages,  \* the running list shared by main() and the handlers
    context,            \* replServer.context: the set of its bindings
    ctxId,              \* identity of the object replServer.context refers to
    repl,               \* "none", "open" (repl.start returned) or "closed"
    exitPc,             \* position of the exit handler
    rootExists,         \* whether the install root is on the filesystem
    modules,            \* by uuid, what import() finds at the installed path
    nextUuid,           \* stands for randomUUID(): a fresh value per call
    procState,          \* "running" or "exited"
    exitCode,           \* exit status once exited
    fnPc, fnIn, fnOut   \* a single call of one of the pure functions

sessionVars == <<argv, tasks, installedPackages, context, ctxId, repl, exitPc,
                 rootExists, modules, nextUuid, procState, exitCode>>
fnVars == <<fnPc, fnIn, fnOut>>
vars == <<argv, tasks, installedPackages, context, ctxId, repl, exitPc,
          rootExists, modules, nextUuid, procState, exitCode,
          fnPc, fnIn, fnOut>>

\* a session is started with no token, with `a b=a` (one package under two
\* aliases) or with `1` (not an identifier)
StartupArgvs ==
    { <<>>,
      << <<"a">>, <<"b", "=", "a">> >>,
      << <<"1">> >> }

\* what a user types after `.import`: nothing, `b=a a`, or ` 1`
ImportArgs ==
    { <<>>,
      <<"b", "=", "a", " ", "a">>,
      <<" ", "1">> }

\* stringArgv(args) for an argument string without quotes: the maximal runs
\* of characters other than white space
stringArgv(args) == SelectSeq(Split(args, " "), LAMBDA part : part # <<>>)

\* what import() can find at an installed path: a package whose entry point
\* cannot be resolved or loaded, or a module namespace with its exported keys
\* and the truthiness of its default export; the sessions install these
SessionModules ==
    { [loads |-> FALSE, keys |-> {}, def |-> "none"],
      [loads |-> TRUE, keys |-> {"default"}, def |-> "falsy"],
      [loads |-> TRUE, keys |-> {"default", "x"}, def |-> "truthy"] }

\* A task is main() or one call of a handler: where it stands (pc), how it
\* ended (outcome), the batch it maps (pkgs), the installations it started
\* (inst) and the order in which they ended (order), the records it got from
\* installPackages (recs), the positions of its loop's array bound so far
\* (imported), whether that array is the running list itself (listLoop), the
\* context object its loop binds into (ctx), the error it caught (error),
\* whether it wrote it to the console (logged) and how often it redisplayed
\* the prompt (prompts).
NoError == [error |-> "none", subject |-> <<>>]

Task(kind, pc) ==
    [kind |-> kind, pc |-> pc, outcome |-> "none", pkgs |-> <<>>, inst |-> <<>>,
     order |-> <<>>, recs |-> <<>>, imported |-> {}, listLoop |-> FALSE,
     ctx |-> 0, error |-> NoError, logged |-> FALSE, prompts |-> 0]

Running == procState = "running"
Main == tasks[1]

(* ---------------------- installPackage / installPackages --------------- *)
\* the synchronous start of installPackage for every package of a batch:
\* one randomUUID() and one `npm install` child process each
StartInstalls(pkgs, firstUuid) ==
    [i \in 1..Len(pkgs) |-> [status |-> "pending", uuid |-> firstUuid + i - 1]]

installedPath(uuid) == <<"root", "lib", "node_modules", uuid>>

\* the value installPackage resolves with
InstalledRecord(pkg, uuid) ==
    [spec |-> pkg.spec, alias |-> pkg.alias, install |-> pkg.install,
     scope |-> pkg.scope, name |-> pkg.name, version |-> pkg.version,
     subpath |-> pkg.subpath, uuid |-> uuid, installedPath |-> installedPath(uuid)]

PromiseAll_CompletionOrder(pkgs, inst, order) ==
    [i \in 1..Len(pkgs) |-> InstalledRecord(pkgs[order[i]], inst[order[i]].uuid)]

\* Promise.all: the values in the order of the input promises
PromiseAll(pkgs, inst, order) ==
    [i \in 1..Len(pkgs) |-> InstalledRecord(pkgs[i], inst[i].uuid)]

Push_Unshift(list, recs) == recs \o list

\* installedPackages.push(...newlyInstalledPackages)
Push(list, recs) == list \o recs

\* the error installPackage throws; Promise.all rejects with that of the
\* installation that failed first
InstallError(t) ==
    [error |-> "Failed to install", subject |-> t.pkgs[t.order[
        CHOOSE n \in 1..Len(t.order) :
            /\ t.inst[t.order[n]].status = "failed"
            /\ \A m \in 1..(n - 1) : t.inst[t.order[m]].status # "failed"]].install]

LoadError(pkg) == [error |-> "Cannot load module", subject |-> pkg.alias]

AllInstalled(t) == \A i \in 1..Len(t.inst) : t.inst[i].status = "ok"

(* ------------------------ importPackageIntoContext --------------------- *)
\* import(resolvedPath): what was installed under a uuid does not change and
\* a loaded module is cached, so every load of a uuid finds what the first did
Load(uuid) ==
    IF \E m \in modules : m.uuid = uuid
    THEN { (CHOOSE m \in modules : m.uuid = uuid).mod }
    ELSE SessionModules

\* Object.keys(pkg).length === 1 && pkg['default']
onlyHasDefaultExport(pkg) ==
    Cardinality(pkg.keys) = 1 /\ ("default" \in pkg.keys /\ pkg.def = "truthy")

\* value: onlyHasDefaultExport ? pkg['default'] : pkg
BoundValue(pkg) ==
    IF onlyHasDefaultExport(pkg)
    THEN [is |-> "default export", keys |-> {}, def |-> pkg.def]
    ELSE [is |-> "module", keys |-> pkg.keys, def |-> pkg.def]

\* Object.defineProperty(context, alias, {configurable, enumerable, writable, value})
DefineProperty(ctx, alias, value) ==
    { b \in ctx : b.alias # alias } \cup { [alias |-> alias, value |-> value] }

(* ------------------------ importPackagesIntoContext -------------------- *)
\* for (const pkg of packages): the next element of the array, 0 at its end
NextIndex(imported, n) ==
    IF (1..n) \ imported = {} THEN 0
    ELSE CHOOSE p \in (1..n) \ imported : \A q \in (1..n) \ imported : p <= q

\* the array a task's loop walks: main() and the reset handler walk the
\* running list itself, an .import handler walks its own new records
LoopList(t) == IF t.listLoop THEN installedPackages ELSE t.recs

(* ---------------------------------- Init ------------------------------- *)
FnIdle == fnPc = "idle" /\ fnIn = <<>> /\ fnOut = <<>>

Init ==
    /\ argv \in StartupArgvs
    /\ tasks = << Task("main", "init") >>
    /\ installedPackages = <<>>
    /\ context = {}
    /\ ctxId = 0
    /\ repl = "none"
    /\ exitPc = "none"
    /\ rootExists = FALSE
    /\ modules = {}
    /\ nextUuid = 1
    /\ procState = "running"
    /\ exitCode = -1
    /\ FnIdle

(* ------------------------------ index.ts main -------------------------- *)
\* const installPath = await createInstallationDirectory()
CreateInstallationDirectory ==
    /\ Running /\ Main.pc = "init"
    /\ rootExists' = TRUE
    /\ tasks' = [tasks EXCEPT ![1].pc = "created"]
    /\ UNCHANGED <<argv, installedPackages, context, ctxId, repl, exitPc, modules,
                   nextUuid, procState, exitCode>>
    /\ UNCHANGED fnVars

\* mkdtemp fails: the error is thrown outside the try block of main()
CreateInstallationDirectoryFails ==
    /\ Running /\ Main.pc = "init"
    /\ tasks' = [tasks EXCEPT ![1].pc = "thrown"]
    /\ procState' = "exited"
    /\ exitCode' = 1
    /\ UNCHANGED <<argv, installedPackages, context, ctxId, repl, exitPc, rootExists,
                   modules, nextUuid>>
    /\ UNCHANGED fnVars

(* ------------------- the end of importPackagesIntoContext -------------- *)
\* what follows the loop in the caller, once the loop ran off its array
AfterLoop(t) ==
    IF t.kind = "main"
    THEN [t EXCEPT !.pc = "ready", !.outcome = "ok", !.prompts = @ + 1]
    ELSE IF t.kind = "import"
    THEN [t EXCEPT !.pc = "done", !.outcome = "ok", !.prompts = @ + 2]
    ELSE [t EXCEPT !.pc = "done", !.outcome = "ok"]

\* the loop is entered with the array it walks; an empty array ends it at once
EnterLoop(t, list) ==
    IF NextIndex(t.imported, Len(list)) = 0 THEN AfterLoop(t) ELSE t

ReplServerBinding ==
    [alias |-> <<"r">>, value |-> [is |-> "replServer", keys |-> {}, def |-> "none"]]

(* ----------------------- await installPackages(...) -------------------- *)
\* The code after `await installPackages(...)` runs in the turn in which the
\* promise of Promise.all settles: with the last success, or with the first
\* failure, whatever the other installations do.  `ts` is the task table with
\* that installation settled.

\* index.ts 25-39: showReplHeader, repl.start, setupReplServer, and the call
\* of importPackagesIntoContext on the running list
MainInstallsResolved(ts) ==
    LET recs == PromiseAll(ts[1].pkgs, ts[1].inst, ts[1].order)
        t    == [ts[1] EXCEPT !.pc = "importing", !.recs = recs,
                              !.listLoop = TRUE, !.ctx = ctxId]
    IN  /\ installedPackages' = recs
        /\ tasks' = [ts EXCEPT ![1] = EnterLoop(t, recs)]
        /\ repl' = "open"
        /\ context' = { ReplServerBinding }

MainInstallsRejected_Proceeds(ts) ==
    /\ tasks' = [ts EXCEPT ![1].pc = "ready", ![1].outcome = "installfail",
                           ![1].error = InstallError(ts[1]), ![1].logged = TRUE]
    /\ repl' = "open"
    /\ context' = { ReplServerBinding }
    /\ UNCHANGED <<installedPackages>>

\* index.ts 44: the catch block is entered
MainInstallsRejected(ts) ==
    /\ tasks' = [ts EXCEPT ![1].pc = "catch", ![1].outcome = "installfail",
                           ![1].error = InstallError(ts[1])]
    /\ UNCHANGED <<installedPackages, repl, context>>

\* lib.ts 167-170: push, and the call of importPackagesIntoContext on the new
\* records
ImportInstallsResolved(k, ts) ==
    LET recs == PromiseAll(ts[k].pkgs, ts[k].inst, ts[k].order)
        t    == [ts[k] EXCEPT !.pc = "importing", !.recs = recs, !.ctx = ctxId]
    IN  /\ installedPackages' = Push(installedPackages, recs)
        /\ tasks' = [ts EXCEPT ![k] = EnterLoop(t, recs)]
        /\ UNCHANGED <<repl, context>>

ImportInstallsRejected_KeepsSucceeded(k, ts) ==
    /\ tasks' = [ts EXCEPT ![k].pc = "done", ![k].outcome = "installfail",
                           ![k].error = InstallError(ts[k]),
                           ![k].logged = TRUE, ![k].prompts = @ + 1]
    /\ installedPackages' =
          Push(installedPackages,
               SelectSeq(PromiseAll(ts[k].pkgs, ts[k].inst, ts[k].order),
                         LAMBDA rec : \E i \in 1..Len(ts[k].inst) :
                                        /\ ts[k].inst[i].uuid = rec.uuid
                                        /\ ts[k].inst[i].status = "ok"))
    /\ UNCHANGED <<repl, context>>

ImportInstallsRejected_NoFinally(k, ts) ==
    /\ tasks' = [ts EXCEPT ![k].pc = "done", ![k].outcome = "installfail",
                           ![k].error = InstallError(ts[k]), ![k].logged = TRUE]
    /\ UNCHANGED <<installedPackages, repl, context>>

\* lib.ts 173-177: catch (console.error) and finally (displayPrompt)
ImportInstallsRejected(k, ts) ==
    /\ tasks' = [ts EXCEPT ![k].pc = "done", ![k].outcome = "installfail",
                           ![k].error = InstallError(ts[k]),
                           ![k].logged = TRUE, ![k].prompts = @ + 1]
    /\ UNCHANGED <<installedPackages, repl, context>>

(* ----------------------- the npm child processes ----------------------- *)
\* `npm install -g <uuid>@npm:<install> --prefix <root>` ends with status 0:
\* the package is under the root and the promise of installPackage is
\* resolved; the last one of a batch resolves Promise.all
InstallSucceeds(k, i) ==
    /\ Running /\ tasks[k].pc = "installing"
    /\ tasks[k].inst[i].status = "pending"
    /\ rootExists' = TRUE
    /\ LET ts == [tasks EXCEPT ![k].inst[i].status = "ok",
                               ![k].order = Append(tasks[k].order, i)]
       IN  IF AllInstalled(ts[k])
           THEN IF k = 1 THEN MainInstallsResolved(ts) ELSE ImportInstallsResolved(k, ts)
           ELSE /\ tasks' = ts
                /\ UNCHANGED <<installedPackages, repl, context>>
    /\ UNCHANGED <<argv, ctxId, exitPc, modules, nextUuid, procState, exitCode>>
    /\ UNCHANGED fnVars

\* npm ends with a non-zero status: installPackage throws and Promise.all is
\* rejected
InstallFails(k, i) ==
    /\ Running /\ tasks[k].pc = "installing"
    /\ tasks[k].inst[i].status = "pending"
    /\ LET ts == [tasks EXCEPT ![k].inst[i].status = "failed",
                               ![k].order = Append(tasks[k].order, i)]
       IN  IF k = 1 THEN MainInstallsRejected(ts) ELSE ImportInstallsRejected(k, ts)
    /\ UNCHANGED <<argv, ctxId, exitPc, rootExists, modules, nextUuid, procState,
                   exitCode>>
    /\ UNCHANGED fnVars

\* The npm child is a process of its own: nothing in main() or in the
\* handlers stops it.  One that is still running when Promise.all has been
\* rejected, or when the process has exited, goes on and puts its package
\* under the root; nothing waits for its promise any more.
OrphanInstallWrites(k, i) ==
    /\ procState = "exited" \/ tasks[k].pc # "installing"
    /\ tasks[k].inst[i].status = "pending"
    /\ rootExists' = TRUE
    /\ UNCHANGED <<argv, tasks, installedPackages, context, ctxId, repl, exitPc,
                   modules, nextUuid, procState, exitCode>>
    /\ UNCHANGED fnVars

(* ------------------------------ index.ts main -------------------------- *)
\* lines 20-25: map, validate, start the installations; Promise.all of no
\* promise is resolved at once
MainValidateAndInstall ==
    /\ Running /\ Main.pc = "created"
    /\ LET packagesToImport == getPackagesToInstallFromArgv(argv)
           v  == validatePackageNames(packagesToImport, <<>>)
           ts == [tasks EXCEPT ![1].pc = "installing",
                               ![1].pkgs = packagesToImport,
                               ![1].inst = StartInstalls(packagesToImport, nextUuid)]
       IN  IF v.error # "none"
           THEN /\ tasks' = [tasks EXCEPT ![1].pc = "catch", ![1].outcome = "invalid",
                                          ![1].pkgs = packagesToImport, ![1].error = v]
                /\ UNCHANGED <<nextUuid, installedPackages, repl, context>>
           ELSE /\ nextUuid' = nextUuid + Len(packagesToImport)
                /\ IF packagesToImport = <<>>
                   THEN MainInstallsResolved(ts)
                   ELSE /\ tasks' = ts
                        /\ UNCHANGED <<installedPackages, repl, context>>
    /\ UNCHANGED <<argv, ctxId, exitPc, rootExists, modules, procState, exitCode>>
    /\ UNCHANGED fnVars

(* --------- one iteration of the loop of importPackagesIntoContext ------ *)
\* the module of the next package is loaded and bound
ImportNext(k) ==
    /\ Running /\ tasks[k].pc = "importing"
    /\ LET t    == tasks[k]
           list == LoopList(t)
           p    == NextIndex(t.imported, Len(list))
           pkg  == list[p]
           t2   == [t EXCEPT !.imported = @ \cup {p}]
           next == IF NextIndex(t2.imported, Len(list)) = 0 THEN AfterLoop(t2) ELSE t2
       IN  /\ p # 0
           /\ \E mod \in Load(pkg.uuid) :
                /\ mod.loads
                /\ modules' = modules \cup { [uuid |-> pkg.uuid, mod |-> mod] }
                /\ context' = IF t.ctx = ctxId
                              THEN DefineProperty(context, pkg.alias, BoundValue(mod))
                              ELSE context
           /\ tasks' = [tasks EXCEPT ![k] = next]
    /\ UNCHANGED <<argv, installedPackages, ctxId, repl, exitPc, rootExists,
                   nextUuid, procState, exitCode>>
    /\ UNCHANGED fnVars

\* the module of the next package cannot be resolved or loaded: main() goes
\* to its catch block, an .import handler logs and redisplays the prompt, and
\* the promise of the reset handler, which nothing awaits, is rejected
ImportNextFails(k) ==
    /\ Running /\ tasks[k].pc = "importing"
    /\ LET t    == tasks[k]
           list == LoopList(t)
           p    == NextIndex(t.imported, Len(list))
       IN  /\ p # 0
           /\ \E mod \in Load(list[p].uuid) :
                /\ ~mod.loads
                /\ modules' = modules \cup { [uuid |-> list[p].uuid, mod |-> mod] }
           /\ tasks' = [tasks EXCEPT ![k] =
                 IF t.kind = "main"
                 THEN [t EXCEPT !.pc = "catch", !.outcome = "loadfail",
                                !.error = LoadError(list[p])]
                 ELSE IF t.kind = "import"
                 THEN [t EXCEPT !.pc = "done", !.outcome = "loadfail",
                                !.error = LoadError(list[p]),
                                !.logged = TRUE, !.prompts = @ + 1]
                 ELSE [t EXCEPT !.pc = "rejected", !.outcome = "loadfail",
                                !.error = LoadError(list[p])]]
           /\ procState' = IF t.kind = "reset" THEN "exited" ELSE procState
           /\ exitCode' = IF t.kind = "reset" THEN 1 ELSE exitCode
    /\ UNCHANGED <<argv, installedPackages, context, ctxId, repl, exitPc, rootExists,
                   nextUuid>>
    /\ UNCHANGED fnVars

(* --------------------------- index.ts 44-48 ---------------------------- *)
\* await cleanup(installPath) has removed the root; the error is thrown again
\* and ends the process with a non-zero status
MainCleanupAndThrow ==
    /\ Running /\ Main.pc = "catch"
    /\ rootExists' = FALSE
    /\ tasks' = [tasks EXCEPT ![1].pc = "thrown", ![1].logged = TRUE]
    /\ procState' = "exited"
    /\ exitCode' = 1
    /\ UNCHANGED <<argv, installedPackages, context, ctxId, repl, exitPc,
                   modules, nextUuid>>
    /\ UNCHANGED fnVars

(* ---------------------------- setupReplServer -------------------------- *)
Serving == Running /\ repl = "open"
NumTasks(kind) == Cardinality({ k \in 1..Len(tasks) : tasks[k].kind = kind })
\* the commands and events of a run are bounded: .import lines and resets
CanStartTask == NumTasks("import") < MaxCommands
CanReset == NumTasks("reset") < MaxResets

\* .packages: listPackages prints the list and redisplays the prompt
CmdPackages ==
    /\ Serving
    /\ UNCHANGED <<argv, tasks, installedPackages, context, ctxId, repl, exitPc,
                   rootExists, modules, nextUuid, procState, exitCode>>
    /\ UNCHANGED fnVars

\* .debug: prints the records and redisplays the prompt
CmdDebug ==
    /\ Serving
    /\ UNCHANGED <<argv, tasks, installedPackages, context, ctxId, repl, exitPc,
                   rootExists, modules, nextUuid, procState, exitCode>>
    /\ UNCHANGED fnVars

CmdImport_NoValidation(args) ==
    /\ Serving /\ CanStartTask
    /\ LET newPackages == getPackagesToInstallFromArgv(stringArgv(args))
           t  == [Task("import", "installing") EXCEPT
                     !.pkgs = newPackages,
                     !.inst = StartInstalls(newPackages, nextUuid)]
       IN  /\ nextUuid' = nextUuid + Len(newPackages)
           /\ IF newPackages = <<>>
              THEN ImportInstallsResolved(Len(tasks) + 1, Append(tasks, t))
              ELSE /\ tasks' = Append(tasks, t)
                   /\ UNCHANGED <<installedPackages, repl, context>>
    /\ UNCHANGED <<argv, ctxId, exitPc, rootExists, modules, procState, exitCode>>
    /\ UNCHANGED fnVars

\* .import <args>: importAdditionalPackagesViaCommand up to its first await;
\* Promise.all of no promise is resolved at once
CmdImport(args) ==
    /\ Serving /\ CanStartTask
    /\ LET newPackages == getPackagesToInstallFromArgv(stringArgv(args))
           v  == validatePackageNames(newPackages, installedPackages)
           t  == [Task("import", "installing") EXCEPT
                     !.pkgs = newPackages,
                     !.inst = StartInstalls(newPackages, nextUuid)]
       IN  IF v.error # "none"
           THEN /\ tasks' = Append(tasks, [Task("import", "done") EXCEPT
                                              !.outcome = "invalid",
                                              !.pkgs = newPackages, !.prompts = 1,
                                              !.error = v, !.logged = TRUE])
                /\ UNCHANGED <<nextUuid, installedPackages, repl, context>>
           ELSE /\ nextUuid' = nextUuid + Len(newPackages)
                /\ IF newPackages = <<>>
                   THEN ImportInstallsResolved(Len(tasks) + 1, Append(tasks, t))
                   ELSE /\ tasks' = Append(tasks, t)
                        /\ UNCHANGED <<installedPackages, repl, context>>
    /\ UNCHANGED <<argv, ctxId, exitPc, rootExists, modules, procState, exitCode>>
    /\ UNCHANGED fnVars

\* the REPL replaced its context and emitted 'reset'
Reset ==
    /\ Serving /\ CanReset
    /\ ctxId' = ctxId + 1
    /\ context' = {}
    /\ LET t == [Task("reset", "importing") EXCEPT !.listLoop = TRUE, !.ctx = ctxId + 1]
       IN  tasks' = Append(tasks, EnterLoop(t, installedPackages))
    /\ UNCHANGED <<argv, installedPackages, repl, exitPc, rootExists, modules,
                   nextUuid, procState, exitCode>>
    /\ UNCHANGED fnVars

\* the REPL closed and emitted 'exit': the handler runs up to await cleanup
Exit ==
    /\ Serving
    /\ repl' = "closed"
    /\ exitPc' = "cleaning"
    /\ UNCHANGED <<argv, tasks, installedPackages, context, ctxId, rootExists, modules,
                   nextUuid, procState, exitCode>>
    /\ UNCHANGED fnVars

\* rm(path, {recursive, force}) is through; process.exit(0)
ExitCleanupDone ==
    /\ Running /\ exitPc = "cleaning"
    /\ rootExists' = FALSE
    /\ exitPc' = "done"
    /\ procState' = "exited"
    /\ exitCode' = 0
    /\ UNCHANGED <<argv, tasks, installedPackages, context, ctxId, repl, modules,
                   nextUuid>>
    /\ UNCHANGED fnVars

Next ==
    \/ CreateInstallationDirectory
    \/ CreateInstallationDirectoryFails
    \/ MainValidateAndInstall
    \/ \E k \in 1..Len(tasks) : \E i \in 1..Len(tasks[k].inst) : InstallSucceeds(k, i)
    \/ \E k \in 1..Len(tasks) : \E i \in 1..Len(tasks[k].inst) : InstallFails(k, i)
    \/ \E k \in 1..Len(tasks) : \E i \in 1..Len(tasks[k].inst) : OrphanInstallWrites(k, i)
    \/ \E k \in 1..Len(tasks) : ImportNext(k)
    \/ \E k \in 1..Len(tasks) : ImportNextFails(k)
    \/ MainCleanupAndThrow
    \/ CmdPackages
    \/ CmdDebug
    \/ \E args \in ImportArgs : CmdImport(args)
    \/ Reset
    \/ Exit
    \/ ExitCleanupDone

Spec == Init /\ [][Next]_vars

(* --------------------- single calls of the pure functions -------------- *)
\* no session: main() has not run
NoSession ==
    /\ argv = <<>>
    /\ tasks = << Task("main", "init") >>
    /\ installedPackages = <<>>
    /\ context = {}
    /\ ctxId = 0
    /\ repl = "none"
    /\ exitPc = "none"
    /\ rootExists = FALSE
    /\ modules = {}
    /\ nextUuid = 1
    /\ procState = "running"
    /\ exitCode = -1

\* parsePackageSpec(spec) for every text over these characters, and for the
\* shorter texts that also hold line terminators
SpecAlphabet == {"a", "@", "/"}

InitParse ==
    /\ NoSession
    /\ fnPc = "call"
    /\ fnIn \in StringsUpTo(SpecAlphabet, MaxSpecLen)
                 \cup StringsUpTo(SpecAlphabet \cup LineTerminators, MaxLineLen)
    /\ fnOut = <<>>

CallParsePackageSpec ==
    /\ fnPc = "call"
    /\ fnOut' = parsePackageSpec(fnIn)
    /\ fnPc' = "returned"
    /\ UNCHANGED <<fnIn>>
    /\ UNCHANGED sessionVars

SpecParse == InitParse /\ [][CallParsePackageSpec]_vars

\* getPackagesToInstallFromArgv(argv) for one token over these characters,
\* alone or followed by a second token
ArgAlphabet == {"a", "b", "=", "@"}
SecondArgs == { <<"a">>, <<"b", "=", "a">>, <<"a", "@", "a">> }

InitArgv ==
    /\ NoSession
    /\ fnPc = "call"
    /\ \E first \in StringsUpTo(ArgAlphabet, MaxArgLen) :
         \/ fnIn = << first >>
         \/ \E second \in SecondArgs : fnIn = << first, second >>
    /\ fnOut = <<>>

CallGetPackagesToInstallFromArgv ==
    /\ fnPc = "call"
    /\ fnOut' = getPackagesToInstallFromArgv(fnIn)
    /\ fnPc' = "returned"
    /\ UNCHANGED <<fnIn>>
    /\ UNCHANGED sessionVars

SpecArgv == InitArgv /\ [][CallGetPackagesToInstallFromArgv]_vars

\* index.ts 21-22 and lib.ts 162-163: the packages mapped from the tokens are
\* validated before they are handed to installPackages
CallValidateMapped ==
    /\ fnPc = "returned"
    /\ fnOut' = [pkgs |-> fnOut, error |-> validatePackageNames(fnOut, <<>>)]
    /\ fnPc' = "validated"
    /\ UNCHANGED <<fnIn>>
    /\ UNCHANGED sessionVars

SpecMapValidate ==
    InitArgv /\ [][CallGetPackagesToInstallFromArgv \/ CallValidateMapped]_vars

\* validatePackageNames(newPackages, alreadyInstalled): newPackages mapped
\* from one token over these characters, alone or followed by a second
\* token, and alreadyInstalled one of a few running lists
AliasAlphabet == {"i", "n", "1", "$", "="}
SecondTokens == { <<"i">>, <<"n">>, <<"n", "=", "i">>, <<"i", "=", "$">> }

Installed(token, uuid) == InstalledRecord(PackageFromArg(token), uuid)
RunningLists ==
    { <<>>,
      << Installed(<<"i">>, 1) >>,
      << Installed(<<"n", "=", "i">>, 1) >>,
      << Installed(<<"i">>, 1), Installed(<<"n">>, 2) >> }

InitValidate ==
    /\ NoSession
    /\ fnPc = "call"
    /\ \E first \in StringsUpTo(AliasAlphabet, MaxAliasLen), list \in RunningLists :
         \/ fnIn = << getPackagesToInstallFromArgv(<< first >>), list >>
         \/ \E second \in SecondTokens :
              fnIn = << getPackagesToInstallFromArgv(<< first, second >>), list >>
    /\ fnOut = <<>>

CallValidatePackageNames ==
    /\ fnPc = "call"
    /\ fnOut' = validatePackageNames(fnIn[1], fnIn[2])
    /\ fnPc' = "returned"
    /\ UNCHANGED <<fnIn>>
    /\ UNCHANGED sessionVars

SpecValidate == InitValidate /\ [][CallValidatePackageNames]_vars

(* ============================== properties ============================= *)
Distinct(list) == \A i, j \in 1..Len(list) : i # j => list[i] # list[j]
Aliases(list) == [i \in 1..Len(list) |-> list[i].alias]
IsPrefix(a, b) == Len(a) <= Len(b) /\ SubSeq(b, 1, Len(a)) = a
ImportTasks == { k \in 2..Len(tasks) : tasks[k].kind = "import" }

\* C1: in every state of a session the aliases of the running list are
\* pairwise distinct.
AliasesPairwiseDistinct == Distinct(Aliases(installedPackages))

\* C2: a batch that fails validation starts no installation and leaves the
\* running list and the context as they were, at startup and in .import; no
\* installation is started for it later either.
ValidationPrecedesInstallation ==
    [][ /\ ( /\ Main.pc = "created" /\ tasks'[1].pc # "created"
             /\ validatePackageNames(getPackagesToInstallFromArgv(argv), <<>>).error
                  # "none" )
           => /\ tasks'[1].inst = <<>>
              /\ nextUuid' = nextUuid
              /\ installedPackages' = installedPackages
              /\ context' = context
        /\ ( /\ Len(tasks') > Len(tasks)
             /\ tasks'[Len(tasks')].kind = "import"
             /\ validatePackageNames(tasks'[Len(tasks')].pkgs, installedPackages).error
                  # "none" )
           => /\ tasks'[Len(tasks')].inst = <<>>
              /\ tasks'[Len(tasks')].pc = "done"
              /\ nextUuid' = nextUuid
              /\ installedPackages' = installedPackages
              /\ context' = context
        /\ \A k \in 1..Len(tasks) :
             tasks[k].outcome = "invalid" => tasks'[k].inst = <<>>
      ]_vars

\* C2 witness: an .import batch was rejected by validation in a session that
\* has installed packages and bindings.
RejectedImportBatch ==
    \E k \in ImportTasks :
        /\ tasks[k].outcome = "invalid"
        /\ Len(tasks[k].pkgs) >= 1
        /\ installedPackages # <<>>
        /\ \E b \in context : b.alias = installedPackages[1].alias

\* C3: once the process has terminated, the install root does not exist.
RootGoneAtTermination == procState = "exited" => ~rootExists

Failures == {"invalid", "installfail", "loadfail"}

\* task k is an .import handler that ends with a failure in this step
FailsInThisStep(k) ==
    /\ tasks'[k].kind = "import"
    /\ tasks'[k].outcome \in Failures
    /\ k > Len(tasks) \/ tasks[k].outcome = "none"

\* C4: a failure inside an .import handler (validation, installation, module
\* load) is caught and logged: the step in which the handler ends leaves the
\* process running and the REPL as it was, so that commands and events are
\* still served, and the handler has redisplayed the prompt exactly once.
ImportFailureKeepsSession ==
    [][ \A k \in 2..Len(tasks') :
          FailsInThisStep(k) =>
            /\ procState' = "running"
            /\ exitCode' = -1
            /\ repl' = repl
            /\ exitPc' = exitPc
            /\ tasks'[k].pc = "done"
            /\ tasks'[k].prompts = 1
            /\ tasks'[k].logged
            /\ tasks'[k].error.error # "none"
            /\ (repl = "open" => Serving')
      ]_vars

\* C4 witness: an .import handler ended with a failed installation, and an
\* .import entered after it ran to its end in the session that goes on serving.
ServedAfterFailedImport ==
    /\ Len(tasks) >= 3
    /\ tasks[2].kind = "import" /\ tasks[2].outcome = "installfail"
    /\ tasks[3].kind = "import" /\ tasks[3].outcome = "ok"
    /\ tasks[3].inst # <<>>
    /\ tasks[3].inst[1].uuid > tasks[2].inst[Len(tasks[2].inst)].uuid
    /\ Serving

\* C5: the running list only grows at its end: every step leaves the earlier
\* list as a prefix, and the only step that extends it is the one in which
\* the installations of a batch have all succeeded, which appends one record
\* per token of that batch.
RunningListAppendOnly ==
    [][ /\ IsPrefix(installedPackages, installedPackages')
        /\ installedPackages' # installedPackages =>
             \E k \in 1..Len(tasks) :
                /\ tasks[k].pc = "installing" /\ tasks'[k].pc # "installing"
                /\ tasks'[k].outcome # "installfail"
                /\ Len(installedPackages') = Len(installedPackages) + Len(tasks[k].pkgs)
        /\ \A k \in ImportTasks :
             ( /\ tasks[k].pc = "installing" /\ tasks'[k].pc # "installing"
               /\ tasks'[k].outcome # "installfail" )
             => /\ Len(installedPackages') = Len(installedPackages) + Len(tasks[k].pkgs)
                /\ SubSeq(installedPackages', Len(installedPackages) + 1,
                          Len(installedPackages')) = tasks'[k].recs
      ]_vars

\* C5 witness: a two-token .import succeeded and extended the list by two
\* records, and a reset was served after it.
ListGrewByImport ==
    /\ Len(installedPackages) = 2
    /\ \E k \in ImportTasks :
         /\ tasks[k].outcome = "ok"
         /\ Len(tasks[k].pkgs) = 2
         /\ installedPackages = tasks[k].recs
         /\ \E r \in (k + 1)..Len(tasks) :
              tasks[r].kind = "reset" /\ tasks[r].imported = {1, 2}

\* C6: whatever the order in which the installations of a batch complete,
\* record i of the batch is that of token i, and the loop binds the records
\* one at a time in that order: the positions bound so far are 1..n, and the
\* step that binds position p writes the alias of record p into the context.
BatchKeepsInputOrder ==
    [][ \A k \in 1..Len(tasks) :
          /\ ( tasks[k].kind # "reset"
               /\ tasks[k].pc = "installing" /\ tasks'[k].pc # "installing"
               /\ tasks'[k].outcome # "installfail" )
             => /\ Len(tasks'[k].recs) = Len(tasks[k].pkgs)
                /\ \A i \in 1..Len(tasks[k].pkgs) :
                     /\ tasks'[k].recs[i].alias = tasks[k].pkgs[i].alias
                     /\ tasks'[k].recs[i].spec = tasks[k].pkgs[i].spec
                     /\ tasks'[k].recs[i].uuid = tasks[k].inst[i].uuid
                /\ SubSeq(installedPackages', Len(installedPackages') - Len(tasks[k].pkgs) + 1,
                          Len(installedPackages')) = tasks'[k].recs
          /\ tasks'[k].imported # tasks[k].imported
             => LET p == Cardinality(tasks[k].imported) + 1 IN
                /\ tasks[k].imported = 1..(p - 1)
                /\ tasks'[k].imported = 1..p
                /\ tasks[k].ctx = ctxId =>
                     \E b \in context' : b.alias = LoopList(tasks[k])[p].alias
      ]_vars

\* C6 witness: the second installation of a two-token .import batch completed
\* before the first, and both packages were then bound.
OutOfOrderCompletion ==
    \E k \in ImportTasks :
        /\ tasks[k].order = <<2, 1>>
        /\ tasks[k].imported = {1, 2}
        /\ tasks[k].outcome = "ok"
        /\ tasks[k].recs[1].alias # tasks[k].recs[2].alias

\* C10: a module whose only exported member is `default` is bound as its
\* default value, never as the module object.
OnlyDefaultIsUnwrapped ==
    \A b \in context : b.value.is = "module" => b.value.keys # {"default"}

(* ------------------------ the pure functions --------------------------- *)
FirstIndexOf(str, ch) ==
    IF Includes(str, ch)
    THEN CHOOSE i \in 1..Len(str) : str[i] = ch /\ \A j \in 1..(i - 1) : str[j] # ch
    ELSE 0
BeforeFirst(str, ch) == SubSeq(str, 1, FirstIndexOf(str, ch) - 1)
AfterFirst(str, ch) == SubSeq(str, FirstIndexOf(str, ch) + 1, Len(str))

Fields(rec) ==
    [install |-> rec.install, scope |-> rec.scope, name |-> rec.name,
     version |-> rec.version, subpath |-> rec.subpath]

\* C7: getPackagesToInstallFromArgv returns one record per token in input
\* order; for a token with `=` the alias is the text before the first `=` and
\* the specifier parsed and stored is the text after that first `=`; for a
\* token without `=` the specifier is the token and the alias is the name.
ArgvMappedPerToken ==
    fnPc = "returned" =>
      /\ Len(fnOut) = Len(fnIn)
      /\ \A i \in 1..Len(fnIn) :
           IF Includes(fnIn[i], "=")
           THEN /\ fnOut[i].alias = BeforeFirst(fnIn[i], "=")
                /\ fnOut[i].spec = AfterFirst(fnIn[i], "=")
                /\ Fields(fnOut[i]) = parsePackageSpec(AfterFirst(fnIn[i], "="))
           ELSE /\ fnOut[i].spec = fnIn[i]
                /\ fnOut[i].alias = fnOut[i].name
                /\ Fields(fnOut[i]) = parsePackageSpec(fnIn[i])

\* C8: for a specifier the pattern matches, install is scope + name + version,
\* scope + name + version + subpath is the specifier, the name has no `/` and
\* no `@`, the scope is empty or runs from `@` to `/`, the version is empty or
\* starts with `@` and has no `/`, the subpath is empty or starts with `/`.
ParseDecomposesSpecifier ==
    (fnPc = "returned" /\ PatternMatches(fnIn) # {}) =>
      /\ fnOut.install = fnOut.scope \o fnOut.name \o fnOut.version
      /\ fnOut.scope \o fnOut.name \o fnOut.version \o fnOut.subpath = fnIn
      /\ fnOut.name # <<>>
      /\ \A i \in 1..Len(fnOut.name) : fnOut.name[i] \notin {"/", "@"}
      /\ fnOut.scope # <<>> =>
           fnOut.scope[1] = "@" /\ fnOut.scope[Len(fnOut.scope)] = "/"
      /\ fnOut.version # <<>> =>
           /\ fnOut.version[1] = "@"
           /\ \A i \in 1..Len(fnOut.version) : fnOut.version[i] # "/"
      /\ fnOut.subpath # <<>> => fnOut.subpath[1] = "/"

\* C8 witness: a specifier with a scope, a version and a subpath was parsed.
ParsedFullSpecifier ==
    /\ fnPc = "returned"
    /\ fnIn = <<"@", "a", "/", "a", "@", "a", "/", "a">>
    /\ fnOut.scope = <<"@", "a", "/">>
    /\ fnOut.version = <<"@", "a">>
    /\ fnOut.subpath = <<"/", "a">>

\* an identifier as the claim words it: a letter, `_` or `$`, then letters,
\* digits, `_` and `$`
LegalIdentifier(str) ==
    /\ str # <<>>
    /\ str[1] \in LowerCase \cup UpperCase \cup {"_", "$"}
    /\ \A i \in 2..Len(str) : str[i] \in LowerCase \cup UpperCase \cup Digits \cup {"_", "$"}

ReservedKeyword(str) == \E i \in 1..Len(JS_RESERVED_WORDS) : JS_RESERVED_WORDS[i] = str

\* C9: validatePackageNames returns without an error exactly when every new
\* alias is a legal identifier and no reserved keyword, every new scope+name
\* is a legal registry name, and the new and the installed aliases together
\* hold no duplicate.
ValidationAcceptsExactly ==
    fnPc = "returned" =>
      LET new  == fnIn[1]
          old  == fnIn[2]
          both == Aliases(new) \o Aliases(old)
      IN  (fnOut.error = "none") <=>
            /\ \A i \in 1..Len(new) :
                 LegalIdentifier(new[i].alias) /\ ~ReservedKeyword(new[i].alias)
            /\ \A i \in 1..Len(new) : ~NpmNameHasErrors(new[i].scope \o new[i].name)
            /\ \A i, j \in 1..Len(both) : i # j => both[i] # both[j]

\* C9 witness: one package under two distinct aliases, neither of them
\* installed, was accepted.
SamePackageTwoAliasesAccepted ==
    /\ fnPc = "returned"
    /\ Len(fnIn[1]) = 2
    /\ fnIn[1][1].alias # fnIn[1][2].alias
    /\ fnIn[1][1].install = fnIn[1][2].install
    /\ fnIn[2] # <<>>
    /\ fnOut.error = "none"

\* the aliases that occur more than once in a list of aliases
Duplicated(aliases) ==
    { aliases[i] : i \in { n \in 1..Len(aliases) :
                             \E m \in 1..Len(aliases) : m # n /\ aliases[m] = aliases[n] } }

\* C11: when validation rejects a batch, the error names the offender: the
\* alias of the first package that violates for an invalid alias, its
\* package name for an invalid package name, and an alias that occurs twice
\* for a duplicate alias.
ValidationErrorNamesOffender ==
    (fnPc = "returned" /\ fnOut.error # "none") =>
        LET newPackages == fnIn[1]
            first       == FirstInvalid(newPackages)
        IN  \/ /\ fnOut.error = "Invalid alias"
               /\ first # 0
               /\ fnOut.subject = newPackages[first].alias
            \/ /\ fnOut.error = "Invalid package name"
               /\ first # 0
               /\ fnOut.subject = newPackages[first].scope \o newPackages[first].name
            \/ /\ fnOut.error = "Package names must be unique"
               /\ fnOut.subject \in Duplicated(AllAliases(newPackages, fnIn[2]))

\* the longest running list: every argument list holds at most two tokens
MaxListLen == 2 * (1 + MaxCommands)

HasModule(uuid) == \E m \in modules : m.uuid = uuid
ModuleOf(uuid) == (CHOOSE m \in modules : m.uuid = uuid).mod

\* package i of the running list is bound under its alias in the context the
\* REPL now has
BoundInContext(i) ==
    /\ i <= Len(installedPackages)
    /\ HasModule(installedPackages[i].uuid)
    /\ [alias |-> installedPackages[i].alias,
        value |-> BoundValue(ModuleOf(installedPackages[i].uuid))] \in context

LoadFailed == \E k \in 1..Len(tasks) : tasks[k].outcome = "loadfail"

\* main() and every handler have run to their ends
Quiescent ==
    /\ procState = "running"
    /\ \A k \in 1..Len(tasks) : tasks[k].pc \in {"ready", "done"}

\* C12: after a reset to a fresh context, once the handlers have run to their
\* ends with every module loaded, every package in the running list, also
\* one an .import in flight at the reset put there, is bound under its alias
\* in that context; and the loop of a reset handler binds in list order.
ResetRebindsRunningList ==
    /\ []((ctxId > 0 /\ Quiescent /\ ~LoadFailed) =>
            \A i \in 1..Len(installedPackages) : BoundInContext(i))
    /\ [][ \A k \in 1..Len(tasks) :
             (tasks[k].kind = "reset" /\ tasks'[k].imported # tasks[k].imported) =>
                \E p \in 1..Len(installedPackages) :
                   /\ tasks[k].imported = 1..(p - 1)
                   /\ tasks'[k].imported = 1..p
         ]_vars

StartupFailed == Main.outcome \in {"invalid", "installfail"}

\* C13: when the validation or an installation of the initial batch has
\* failed, no session is open, no handler has run, no package is in the
\* running list or bound, and after a failed validation no installation was
\* started; the only step main() takes from there removes the install root
\* and ends the process with the error and a non-zero status.
StartupStopsAtFailure ==
    /\ [](StartupFailed =>
            /\ repl = "none" /\ exitPc = "none"
            /\ Len(tasks) = 1
            /\ context = {} /\ ctxId = 0
            /\ installedPackages = <<>> /\ modules = {}
            /\ Main.imported = {}
            /\ Main.pc \in {"catch", "thrown"}
            /\ Main.outcome = "invalid" => (Main.inst = <<>> /\ nextUuid = 1))
    /\ [][ (StartupFailed /\ tasks' # tasks) =>
              /\ Main.pc = "catch" /\ Main'.pc = "thrown"
              /\ Main'.error = Main.error /\ Main'.inst = Main.inst
              /\ ~rootExists'
              /\ procState' = "exited" /\ exitCode' = 1
         ]_vars
    /\ [][ (StartupFailed /\ procState = "exited") =>
              (tasks' = tasks /\ procState' = procState /\ exitCode' = exitCode)
         ]_vars

\* C13 witness: main() ended with the error of a failed installation while
\* another installation of the initial batch was still running.
StartupAbortedByInstallFailure ==
    /\ Main.pc = "thrown" /\ Main.outcome = "installfail"
    /\ procState = "exited" /\ exitCode = 1
    /\ \E i \in 1..Len(Main.inst) : Main.inst[i].status = "pending"
    /\ Main.error.error = "Failed to install"

\* the installation identifiers of the batch of task k
BatchUuids(k) == { tasks[k].inst[i].uuid : i \in 1..Len(tasks[k].inst) }

\* C14: an .import batch of which an installation failed leaves the session
\* as it was: the step in which the failure is caught changes neither the
\* running list nor the context, afterwards no package of the batch is ever
\* in the running list or loaded for binding, and the failure neither stops
\* the installations that are still running nor removes what the others
\* installed.
FailedBatchLeavesNoTrace ==
    /\ [](\A k \in ImportTasks :
             tasks[k].outcome = "installfail" =>
                /\ tasks[k].recs = <<>> /\ tasks[k].imported = {}
                /\ \A i \in 1..Len(installedPackages) :
                      installedPackages[i].uuid \notin BatchUuids(k)
                /\ \A u \in BatchUuids(k) : ~HasModule(u)
                /\ \A i \in 1..Len(tasks[k].inst) :
                      tasks[k].inst[i].status = "pending" =>
                         ENABLED OrphanInstallWrites(k, i))
    /\ [][ \A k \in 2..Len(tasks) :
             (tasks[k].kind = "import" /\ tasks[k].outcome = "none"
                /\ tasks'[k].outcome = "installfail") =>
                /\ installedPackages' = installedPackages
                /\ context' = context
                /\ rootExists' = rootExists
                /\ \A i \in 1..Len(tasks[k].inst) :
                      tasks[k].inst[i].status = "ok" => tasks'[k].inst[i].status = "ok"
                /\ Cardinality({ i \in 1..Len(tasks[k].inst) :
                                  tasks'[k].inst[i].status # tasks[k].inst[i].status }) = 1
         ]_vars

\* C14 witness: an .import batch failed after one of its installations had
\* succeeded; the installed package is under the root and not in the list.
PartlyInstalledBatchDropped ==
    \E k \in ImportTasks :
        /\ tasks[k].outcome = "installfail"
        /\ \E i \in 1..Len(tasks[k].inst) : tasks[k].inst[i].status = "ok"
        /\ rootExists
        /\ \A i \in 1..Len(installedPackages) :
              installedPackages[i].uuid \notin BatchUuids(k)

\* the records of task k are in the running list, next to each other and in
\* their order
BatchInList(recs, list) ==
    \E off \in 0..(Len(list) - Len(recs)) :
        SubSeq(list, off + 1, off + Len(recs)) = recs

\* the binding importPackageIntoContext makes for a record
BindingOf(rec) ==
    [alias |-> rec.alias, value |-> BoundValue(ModuleOf(rec.uuid))]

\* task k is an .import handler whose loop ends in this step with the failed
\* load of the package at position p of its batch
LoadFailsInThisStep(k, p) ==
    /\ tasks[k].kind = "import" /\ tasks[k].pc = "importing"
    /\ tasks'[k].outcome = "loadfail"
    /\ p = NextIndex(tasks[k].imported, Len(tasks[k].recs))

\* C15: the records of an .import batch are in the running list before any
\* of them is imported; when the load of package p of the batch fails, the
\* whole batch stays in the running list, the packages before p are bound in
\* the context the handler binds into and the packages from p on are not,
\* and a later .import with an alias of the batch is rejected by validation,
\* as a duplicate alias when nothing else is wrong with it.
FailedLoadKeepsBatchInList ==
    /\ [](\A k \in ImportTasks :
             (tasks[k].pc = "importing" \/ tasks[k].outcome \in {"ok", "loadfail"}) =>
                BatchInList(tasks[k].recs, installedPackages))
    /\ [][ \A k \in 2..Len(tasks) : \A p \in 1..MaxListLen :
             LoadFailsInThisStep(k, p) =>
                /\ BatchInList(tasks[k].recs, installedPackages')
                /\ tasks[k].imported = 1..(p - 1)
                /\ \A i \in 1..Len(tasks[k].recs) :
                      IF i < p
                      THEN tasks[k].ctx = ctxId => BindingOf(tasks[k].recs[i]) \in context'
                      ELSE \A m \in modules' :
                              m.uuid = tasks[k].recs[i].uuid => ~m.mod.loads
         ]_vars
    /\ [][ \A k \in ImportTasks :
             (tasks[k].outcome = "loadfail" /\ Len(tasks') > Len(tasks)
                /\ tasks'[Len(tasks')].kind = "import"
                /\ \E i \in 1..Len(tasks[k].recs) :
                      ListIncludes(Aliases(tasks'[Len(tasks')].pkgs), tasks[k].recs[i].alias)) =>
                /\ tasks'[Len(tasks')].outcome = "invalid"
                /\ installedPackages' = installedPackages
                /\ FirstInvalid(tasks'[Len(tasks')].pkgs) = 0 =>
                      tasks'[Len(tasks')].error.error = "Package names must be unique"
         ]_vars

\* the specifier of a token: the text after its first `=`, the whole token
\* when it has none
SpecifierText(token) ==
    IF Includes(token, "=") THEN AfterFirst(token, "=") ELSE token

AllFieldsEmpty(parsed) ==
    /\ parsed.install = <<>> /\ parsed.scope = <<>> /\ parsed.name = <<>>
    /\ parsed.version = <<>> /\ parsed.subpath = <<>>

\* C16: a token whose specifier text does not match the grammar is parsed to
\* five empty fields and the batch that holds it is rejected by validation,
\* with or without an alias; every package of a batch that passes validation
\* has a non-empty install string and a valid alias.
MalformedNeverInstalled ==
    fnPc = "validated" =>
        /\ \A i \in 1..Len(fnIn) :
              PatternMatches(SpecifierText(fnIn[i])) = {} =>
                 /\ AllFieldsEmpty(parsePackageSpec(SpecifierText(fnIn[i])))
                 /\ fnOut.error.error # "none"
        /\ fnOut.error.error = "none" =>
              \A i \in 1..Len(fnOut.pkgs) :
                 /\ fnOut.pkgs[i].install # <<>>
                 /\ isValidJsVariableName(fnOut.pkgs[i].alias)

====
